---------------------------- MODULE Spec2Model ----------------------------
(***************************************************************************)
(* State-machine model of sjp_flow_tracker.py: the daily price ingest, the *)
(* merge into prices.csv, the quarterly scheduling test, the per-fund      *)
(* back-solve loop and the merge into quarterly_flows.csv.                 *)
(*                                                                         *)
(* Modelling conventions                                                   *)
(*  - A calendar date is a triple <<year, month, day>>.                    *)
(*  - A value of a "date" column in a DataFrame is a record                *)
(*    [kind, ymd]: kind "date" for a datetime.date object (what            *)
(*    get_daily_prices and backsolve_flows put into fresh rows) and kind   *)
(*    "ts" for a pandas Timestamp (what read_csv(parse_dates=...) returns). *)
(*    A Timestamp never compares equal to a datetime.date, so equality of  *)
(*    column values is equality of these records.                          *)
(*  - A CSV file stores the calendar day of each row only; reading it back *)
(*    yields Timestamps.                                                   *)
(*  - Floating point numbers are modelled as exact rationals extended with *)
(*    inf, -inf and nan (numpy.float64 division by zero yields these and   *)
(*    raises nothing); rounding error of binary doubles is not modelled.   *)
(***************************************************************************)
EXTENDS Integers, Sequences, FiniteSets, TLC

VARIABLES
    codes,        \* load_fund_codes(): [life |-> keys, pension |-> keys]
    priceFile,    \* data/prices.csv
    flowFile,     \* data/quarterly_flows.csv
    pc,           \* position of main()
    exc,          \* exception that terminated the run, "none" otherwise
    runs,         \* number of runs of main() started so far
    today,        \* dt.date.today() of the current run
    fresh,        \* concat of the two feeds (prices_df before the merge)
    prices_df,    \* prices_df after the merge (what backsolve_flows reads)
    q_end,        \* q_end / month_end
    month_start,  \* month_start in backsolve_flows
    idx,          \* position of the for-loop over codes (1-based)
    flows,        \* the list "flows" of backsolve_flows
    size_start,   \* locals of the loop body
    size_end,
    p_start,
    p_end,
    stderr,       \* lines printed to sys.stderr in this run
    docs_seen,    \* <<b>> when both fetches of the last iteration returned: b iff they got the same document
    aum_failed,   \* codes whose factsheet fetch raised in this run
    feeds_ok,     \* <<life, pension>>: whether each feed call of this run succeeded
    fx            \* harness for the flow arithmetic on its own (SpecFlow)

vars == <<codes, priceFile, flowFile, pc, exc, runs, today, fresh, prices_df,
          q_end, month_start, idx, flows, size_start, size_end, p_start,
          p_end, stderr, docs_seen, aum_failed, feeds_ok, fx>>

runVars == <<codes, priceFile, flowFile, pc, exc, runs, today, fresh,
             prices_df, q_end, month_start, idx, flows, size_start, size_end,
             p_start, p_end, stderr, docs_seen, aum_failed, feeds_ok>>

---------------------------------------------------------------------------
(* Bounds of the model *)

MaxRuns == 2        \* runs of main() in one behaviour
NumYears == 1       \* calendar years covered by the scheduling check
MaxK == 3           \* half-width of the aum_end grid of SpecFlow

---------------------------------------------------------------------------
(* Sequence helpers *)

RECURSIVE SeqSum(_)
SeqSum(s) == IF s = <<>> THEN 0 ELSE Head(s) + SeqSum(Tail(s))

Range(s) == {s[i] : i \in 1..Len(s)}

IsInjective(s) == \A i, j \in 1..Len(s) : s[i] = s[j] => i = j

Abs(x) == IF x < 0 THEN -x ELSE x

---------------------------------------------------------------------------
(* Calendar: datetime.date and the pandas offsets used by main *)

NoDate == <<0, 0, 0>>

Years == 2024..(2024 + NumYears - 1)

IsLeap(y) == (y % 4 = 0 /\ y % 100 # 0) \/ y % 400 = 0

DaysInMonth(y, m) ==
    IF m = 2 THEN (IF IsLeap(y) THEN 29 ELSE 28)
    ELSE IF m \in {4, 6, 9, 11} THEN 30 ELSE 31

DaysInYear(y) == IF IsLeap(y) THEN 366 ELSE 365

\* days from Monday 1 January 2024 to the date d (d in 2024 or later)
DaysSinceAnchor(d) ==
    SeqSum([i \in 1..(d[1] - 2024) |-> DaysInYear(2024 + i - 1)])
    + SeqSum([i \in 1..(d[2] - 1) |-> DaysInMonth(d[1], i)])
    + (d[3] - 1)

\* date.weekday(): 0 = Monday ... 6 = Sunday
Weekday(d) == DaysSinceAnchor(d) % 7

AllDays == {t \in (Years \X (1..12) \X (1..31)) : t[3] <= DaysInMonth(t[1], t[2])}

\* shift_month(other, months, "start"): the first day of the month
\* `months` after (before, when negative) the month of `other`
ShiftMonthStart(other, months) ==
    LET z == (other[1] * 12 + (other[2] - 1)) + months
    IN  <<z \div 12, (z % 12) + 1, 1>>

\* today - pd.offsets.MonthBegin()
MonthBeginBack(other) ==
    LET n == IF other[3] > 1 THEN 0 ELSE -1      \* roll_convention(day, -1, 1)
    IN  ShiftMonthStart(other, n)

\* month_end - pd.offsets.QuarterBegin(startingMonth=1)
QuarterBeginBack(other) ==
    LET months_since == (other[2] % 3) - (1 % 3)
        qtrs == IF months_since > 0 \/ (months_since = 0 /\ other[3] > 1)
                THEN 0 ELSE -1                   \* roll_qtrday(other, -1, 1, "start", 3)
        months == qtrs * 3 - months_since
    IN  ShiftMonthStart(other, months)

\* the dates of pd.bdate_range(first_biz, periods=20, freq="C")[:10] that can
\* equal `t`: t is a weekday and at most 10 weekdays of its month are <= t
InFirstTenBizDays(t) ==
    /\ Weekday(t) < 5
    /\ Cardinality({d \in 1..t[3] : Weekday(<<t[1], t[2], d>>) < 5}) <= 10

\* the condition of the if-statement that triggers flow estimation
IsEstimationDay(t) == InFirstTenBizDays(t) /\ t[2] \in {1, 4, 7, 10}

\* the last calendar day of the month before the month of t
LastDayOfPrevMonth(t) ==
    LET f == ShiftMonthStart(t, -1)
    IN  <<f[1], f[2], DaysInMonth(f[1], f[2])>>

\* the calendar month-end three months before the month-end e
MonthEndThreeBack(e) ==
    LET f == ShiftMonthStart(e, -3)
    IN  <<f[1], f[2], DaysInMonth(f[1], f[2])>>

IsQuarterBoundary(d) ==
    d[2] \in {3, 6, 9, 12} /\ d[3] = DaysInMonth(d[1], d[2])


---------------------------------------------------------------------------
(* Floating point values: exact rationals n/d (d > 0, lowest terms), inf    *)
(* (n = 1), -inf (n = -1) and nan.                                          *)

RECURSIVE Gcd(_, _)
Gcd(a, b) == IF b = 0 THEN a ELSE Gcd(b, a % b)

Rat(n, d) ==
    LET g == Gcd(Abs(n), d)
    IN  [k |-> "fin", n |-> n \div g, d |-> d \div g]

Inf(s) == [k |-> "inf", n |-> s, d |-> 1]

NaN == [k |-> "nan", n |-> 0, d |-> 1]

Sign(x) == IF x.n > 0 THEN 1 ELSE IF x.n < 0 THEN -1 ELSE 0

IsFinite(x) == x.k = "fin"

\* (an/ad) * (bn/bd), cancelling common factors before multiplying
MulFin(an, ad, bn, bd) ==
    LET g1 == Gcd(Abs(an), bd)
        g2 == Gcd(Abs(bn), ad)
    IN  Rat((an \div g1) * (bn \div g2), (ad \div g2) * (bd \div g1))

\* a * b
ExtMul(a, b) ==
    IF a.k = "nan" \/ b.k = "nan" THEN NaN
    ELSE IF a.k = "inf" \/ b.k = "inf"
         THEN (IF Sign(a) * Sign(b) = 0 THEN NaN ELSE Inf(Sign(a) * Sign(b)))
    ELSE MulFin(a.n, a.d, b.n, b.d)

\* a / b with numpy.float64 semantics: x/0 is inf, -inf or nan, not an exception
ExtDiv(a, b) ==
    IF a.k = "nan" \/ b.k = "nan" THEN NaN
    ELSE IF a.k = "inf"
         THEN (IF b.k = "inf" THEN NaN
               ELSE Inf(IF Sign(b) < 0 THEN -Sign(a) ELSE Sign(a)))
    ELSE IF b.k = "inf" THEN Rat(0, 1)
    ELSE IF b.n = 0
         THEN (IF a.n = 0 THEN NaN ELSE Inf(Sign(a)))
    ELSE MulFin(a.n, a.d, b.d * Sign(b), Abs(b.n))

\* a - b
ExtSub(a, b) ==
    IF a.k = "nan" \/ b.k = "nan" THEN NaN
    ELSE IF a.k = "inf"
         THEN (IF b.k = "inf" /\ b.n = a.n THEN NaN ELSE a)
    ELSE IF b.k = "inf" THEN Inf(-b.n)
    ELSE Rat(a.n * b.d - b.n * a.d, a.d * b.d)

\* round-half-to-even of n/d (d > 0) to an integer
RoundHalfEven(n, d) ==
    LET q == n \div d
        r == n - q * d
    IN  IF 2 * r < d THEN q
        ELSE IF 2 * r > d THEN q + 1
        ELSE IF q % 2 = 0 THEN q ELSE q + 1

\* round(flow, 2) of a numpy.float64
Round2(x) ==
    IF x.k # "fin" THEN x ELSE Rat(RoundHalfEven(100 * x.n, x.d), 100)

Million == Rat(1000000, 1)

\* the arithmetic of one loop iteration of backsolve_flows
UnitsStart(sizeStart, pStart) == ExtDiv(ExtMul(sizeStart, Million), pStart)


\* AumNoFlow scaled back by a thousand instead of a million
AumNoFlow_Thousands(unitsStart, pEnd) ==
    ExtDiv(ExtMul(unitsStart, pEnd), Rat(1000, 1))

AumNoFlow(unitsStart, pEnd) == ExtDiv(ExtMul(unitsStart, pEnd), Million)


\* ImpliedFlow with the operands of the subtraction exchanged
ImpliedFlow_Swapped(sizeStart, sizeEnd, pStart, pEnd) ==
    ExtSub(AumNoFlow(UnitsStart(sizeStart, pStart), pEnd), sizeEnd)

ImpliedFlow(sizeStart, sizeEnd, pStart, pEnd) ==
    ExtSub(sizeEnd, AumNoFlow(UnitsStart(sizeStart, pStart), pEnd))

FlowGbpM(sizeStart, sizeEnd, pStart, pEnd) ==
    Round2(ImpliedFlow(sizeStart, sizeEnd, pStart, pEnd))

---------------------------------------------------------------------------
(* DataFrames and the two CSV files *)

DateObj(ymd) == [kind |-> "date", ymd |-> ymd]     \* datetime.date

Timestamp(ymd) == [kind |-> "ts", ymd |-> ymd]     \* pandas.Timestamp

NoFile == [exists |-> FALSE, header |-> FALSE, rows |-> <<>>]

\* the values of a row in the columns of `subset`
RowKey(r, subset) == [f \in subset |-> r[f]]

RECURSIVE DropDuplicatesFrom(_, _, _)
DropDuplicatesFrom(s, subset, seen) ==
    IF s = <<>> THEN <<>>
    ELSE IF RowKey(Head(s), subset) \in seen
         THEN DropDuplicatesFrom(Tail(s), subset, seen)
         ELSE <<Head(s)>> \o DropDuplicatesFrom(Tail(s), subset,
                                                seen \cup {RowKey(Head(s), subset)})

\* df.drop_duplicates(subset=...): the first row of every key is kept
DropDuplicates(s, subset) == DropDuplicatesFrom(s, subset, {})

\* pd.read_csv(price_file, parse_dates=["date"])
ReadPrices(file) ==
    [i \in 1..Len(file.rows) |->
        [date |-> Timestamp(file.rows[i].date), code |-> file.rows[i].code,
         price_pence |-> file.rows[i].price_pence]]

\* prices_df.to_csv(price_file, index=False)
WritePrices(df) ==
    [exists |-> TRUE, header |-> TRUE,
     rows |-> [i \in 1..Len(df) |->
                 [date |-> df[i].date.ymd, code |-> df[i].code,
                  price_pence |-> df[i].price_pence]]]

\* pd.read_csv(flow_file, parse_dates=["quarter_end"])
ReadFlows(file) ==
    [i \in 1..Len(file.rows) |->
        [quarter_end |-> Timestamp(file.rows[i].quarter_end),
         code |-> file.rows[i].code, flow_gbp_m |-> file.rows[i].flow_gbp_m]]

\* q_flows.to_csv(flow_file, index=False); pd.DataFrame([]) has no columns,
\* so an empty q_flows is written as a file without a header line
WriteFlows(df) ==
    [exists |-> TRUE, header |-> df # <<>>,
     rows |-> [i \in 1..Len(df) |->
                 [quarter_end |-> df[i].quarter_end.ymd, code |-> df[i].code,
                  flow_gbp_m |-> df[i].flow_gbp_m]]]

\* the if-block that merges today's prices with prices.csv
MergePrices(file, new) ==
    IF file.exists
    THEN DropDuplicates(ReadPrices(file) \o new, {"date", "code"})
    ELSE new

\* the if-block that merges this quarter's flows with quarterly_flows.csv
MergeFlows(file, new) ==
    IF file.exists
    THEN DropDuplicates(ReadFlows(file) \o new, {"quarter_end", "code"})
    ELSE new

\* price_df.loc[(code == c) & (date == d)]: the matching rows, in order
PriceMatches(df, c, d) ==
    SelectSeq(df, LAMBDA r : r.code = c /\ r.date = DateObj(d))

---------------------------------------------------------------------------
(* The environment: fund universe, price feeds, factsheet documents *)

Codes == {"A", "B"}

\* fund_codes.yaml: two distinct funds, or one fund listed under both groups
Universes ==
    { [life |-> <<"A">>, pension |-> <<"B">>],
      [life |-> <<"A">>, pension |-> <<"A">>] }

\* list(codes["life"].keys()) + list(codes["pension"].keys())
CodeList(c) == c.life \o c.pension

\* days on which main() is run: an estimation day and an ordinary day
RunDays == { <<2024, 1, 2>>, <<2024, 1, 16>> }

\* priceDate values a feed may carry: the two dates the January back-solve reads
FeedDates == { <<2023, 10, 1>>, <<2024, 1, 1>> }

\* "price" values of the feed, in pounds
FeedPrices == {0, 1}

\* the price of fund B on a priceDate, in pounds: 1 at the start of the
\* quarter, 2 at its end
PriceOfB(d) == IF d = <<2023, 10, 1>> THEN 1 ELSE 2

\* the lists "funds" of a response: every fund listed carries the priceDate
\* of the response; the endpoint lists both funds, the price of fund A
\* varying over FeedPrices, or fund B alone
FundLists(d) ==
    { <<[priceDate |-> d, fundCode |-> "A", price |-> p],
        [priceDate |-> d, fundCode |-> "B", price |-> PriceOfB(d)]>> :
        p \in FeedPrices }
    \cup { <<[priceDate |-> d, fundCode |-> "B", price |-> PriceOfB(d)]>> }

\* a response of the price endpoint: an HTTP failure, or a JSON body
Feeds ==
    { [ok |-> FALSE, funds |-> <<>>] } \cup
    { [ok |-> TRUE, funds |-> l] : l \in UNION { FundLists(d) : d \in FeedDates } }

\* get_daily_prices: the records built from a successful response
GetDailyPrices(feed) ==
    [i \in 1..Len(feed.funds) |->
        [date |-> DateObj(feed.funds[i].priceDate),
         code |-> feed.funds[i].fundCode,
         price_pence |-> feed.funds[i].price * 100]]

\* what a GET of the "Latest" factsheet of a fund returns: an HTTP failure, or
\* a document that prints a date and possibly a "Fund size" line
HttpErrorDoc == [status |-> "http_error", asof |-> NoDate, num |-> 0, unit |-> "none"]

Doc(asof, num, unit) == [status |-> "ok", asof |-> asof, num |-> num, unit |-> unit]

Docs ==
    { HttpErrorDoc,
      Doc(<<2023, 10, 1>>, 50, "m"),      \* prints the date of month_start
      Doc(<<2023, 12, 31>>, 1, "bn"),
      Doc(<<2023, 12, 31>>, 0, "none") }  \* no "Fund size" line


\* GetMonthEndSize that trusts the figure only of a document printing as_of
GetMonthEndSize_StaleZero(doc, as_of) ==
    IF doc.status # "ok"
    THEN [raised |-> "HTTPError", warn |-> FALSE, value |-> Rat(0, 1)]
    ELSE IF doc.unit = "none"
    THEN [raised |-> "ValueError", warn |-> doc.asof # as_of, value |-> Rat(0, 1)]
    ELSE [raised |-> "none", warn |-> doc.asof # as_of,
          value |-> IF doc.asof # as_of THEN Rat(0, 1)
                    ELSE Rat(doc.num * (IF doc.unit = "bn" THEN 1000 ELSE 1), 1)]

\* get_month_end_size(code, as_of) on the document served: the exception it
\* raises ("none" if it returns), whether the staleness warning is printed,
\* and the value returned (GBP millions)
GetMonthEndSize(doc, as_of) ==
    IF doc.status # "ok"
    THEN [raised |-> "HTTPError", warn |-> FALSE, value |-> Rat(0, 1)]
    ELSE IF doc.unit = "none"
    THEN [raised |-> "ValueError", warn |-> doc.asof # as_of, value |-> Rat(0, 1)]
    ELSE [raised |-> "none", warn |-> doc.asof # as_of,
          value |-> Rat(doc.num * (IF doc.unit = "bn" THEN 1000 ELSE 1), 1)]


\* "except ValueError" in place of "except Exception"
CatchesException_ValueErrorOnly(e) == e = "ValueError"

\* "except Exception": the exceptions the try-block of the loop catches
CatchesException(e) == e \in {"HTTPError", "ValueError"}

Warning(code) == [kind |-> "warning", code |-> code]

Failure(code) == [kind |-> "error", code |-> code]

---------------------------------------------------------------------------
(* main() *)

Zero == Rat(0, 1)

NoFx == [stage |-> "off", ps |-> Zero, pe |-> Zero, as |-> Zero, ae |-> Zero,
         ae2 |-> Zero, f1 |-> Zero, f2 |-> Zero]

\* the locals of a run before main() has executed anything
FreshRun ==
    /\ exc = "none"
    /\ fresh = <<>>
    /\ prices_df = <<>>
    /\ q_end = NoDate
    /\ month_start = NoDate
    /\ idx = 0
    /\ flows = <<>>
    /\ size_start = Zero
    /\ size_end = Zero
    /\ p_start = Zero
    /\ p_end = Zero
    /\ stderr = <<>>
    /\ docs_seen = <<>>
    /\ aum_failed = {}
    /\ feeds_ok = <<TRUE, TRUE>>

Init ==
    /\ codes \in Universes
    /\ priceFile = NoFile
    /\ flowFile = NoFile
    /\ pc = "idle"
    /\ runs = 1
    /\ today = NoDate
    /\ FreshRun
    /\ fx = NoFx


\* FeedsOk with a failure of the pension feed swallowed
FeedsOk_LifeOnly(life, pension) == life.ok

\* both calls of get_daily_prices return (neither raises)
FeedsOk(life, pension) == life.ok /\ pension.ok

\* part 1 of main: fetch both feeds, merge with prices.csv, write prices.csv.
\* An exception of get_daily_prices propagates out of main.
Ingest ==
    /\ pc = "idle"
    /\ \E t \in RunDays, life \in Feeds, pension \in Feeds :
        /\ today' = t
        /\ feeds_ok' = <<life.ok, pension.ok>>
        /\ IF ~FeedsOk(life, pension)
           THEN /\ pc' = "aborted"
                /\ exc' = "HTTPError"
                /\ UNCHANGED <<fresh, prices_df, priceFile>>
           ELSE /\ fresh' = (IF life.ok THEN GetDailyPrices(life) ELSE <<>>)
                           \o (IF pension.ok THEN GetDailyPrices(pension) ELSE <<>>)
                /\ prices_df' = MergePrices(priceFile, fresh')
                /\ priceFile' = WritePrices(prices_df')
                /\ pc' = "ingested"
                /\ exc' = "none"
    /\ UNCHANGED <<codes, flowFile, runs, q_end, month_start, idx, flows,
                   size_start, size_end, p_start, p_end, stderr, docs_seen,
                   aum_failed, fx>>

\* part 2 of main up to the call of backsolve_flows, and its first line
Schedule ==
    /\ pc = "ingested"
    /\ IF IsEstimationDay(today)
       THEN /\ q_end' = MonthBeginBack(today)
            /\ month_start' = QuarterBeginBack(q_end')
            /\ idx' = 1
            /\ flows' = <<>>
            /\ pc' = "backsolve"
       ELSE /\ pc' = "done"
            /\ UNCHANGED <<q_end, month_start, idx, flows>>
    /\ UNCHANGED <<codes, priceFile, flowFile, exc, runs, today, fresh,
                   prices_df, size_start, size_end, p_start, p_end, stderr,
                   docs_seen, aum_failed, feeds_ok, fx>>

\* the stderr lines of the two fetches of one iteration
WarnLines(code, r) == IF r.warn THEN <<Warning(code)>> ELSE <<>>

\* one iteration of the for-loop of backsolve_flows, for codes[idx]
BacksolveFund ==
    /\ pc = "backsolve"
    /\ idx <= Len(CodeList(codes))
    /\ LET code == CodeList(codes)[idx] IN
       \E d1 \in Docs, d2 \in Docs :
         LET r1 == GetMonthEndSize(d1, month_start)
             r2 == GetMonthEndSize(d2, q_end)
             m1 == PriceMatches(prices_df, code, month_start)
             m2 == PriceMatches(prices_df, code, q_end)
         IN
         IF r1.raised # "none"
         THEN \* the first fetch raises: the second is not made
              /\ d2 = d1
              /\ stderr' = stderr \o WarnLines(code, r1)
                             \o (IF CatchesException(r1.raised)
                                 THEN <<Failure(code)>> ELSE <<>>)
              /\ aum_failed' = aum_failed \cup {code}
              /\ IF CatchesException(r1.raised)
                 THEN /\ idx' = idx + 1
                      /\ UNCHANGED <<pc, exc>>
                 ELSE /\ pc' = "crashed"
                      /\ exc' = r1.raised
                      /\ UNCHANGED idx
              /\ docs_seen' = <<>>
              /\ UNCHANGED <<size_start, size_end, p_start, p_end, flows>>
         ELSE IF r2.raised # "none"
         THEN /\ size_start' = r1.value
              /\ stderr' = stderr \o WarnLines(code, r1) \o WarnLines(code, r2)
                             \o (IF CatchesException(r2.raised)
                                 THEN <<Failure(code)>> ELSE <<>>)
              /\ aum_failed' = aum_failed \cup {code}
              /\ IF CatchesException(r2.raised)
                 THEN /\ idx' = idx + 1
                      /\ UNCHANGED <<pc, exc>>
                 ELSE /\ pc' = "crashed"
                      /\ exc' = r2.raised
                      /\ UNCHANGED idx
              /\ docs_seen' = <<>>
              /\ UNCHANGED <<size_end, p_start, p_end, flows>>
         ELSE /\ size_start' = r1.value
              /\ size_end' = r2.value
              /\ docs_seen' = <<d1 = d2>>
              /\ stderr' = stderr \o WarnLines(code, r1) \o WarnLines(code, r2)
              /\ UNCHANGED aum_failed
              /\ IF m1 = <<>>
                 THEN \* .iloc[0] of an empty selection: IndexError, not caught
                      /\ pc' = "crashed"
                      /\ exc' = "IndexError"
                      /\ UNCHANGED <<p_start, p_end, flows, idx>>
                 ELSE IF m2 = <<>>
                 THEN /\ p_start' = Rat(m1[1].price_pence, 1)
                      /\ pc' = "crashed"
                      /\ exc' = "IndexError"
                      /\ UNCHANGED <<p_end, flows, idx>>
                 ELSE /\ p_start' = Rat(m1[1].price_pence, 1)
                      /\ p_end' = Rat(m2[1].price_pence, 1)
                      /\ flows' = Append(flows,
                            [quarter_end |-> DateObj(q_end), code |-> code,
                             flow_gbp_m |-> FlowGbpM(size_start', size_end',
                                                     p_start', p_end')])
                      /\ idx' = idx + 1
                      /\ UNCHANGED <<pc, exc>>
    /\ UNCHANGED <<codes, priceFile, flowFile, runs, today, fresh, prices_df,
                   q_end, month_start, feeds_ok, fx>>

\* the loop is over: backsolve_flows returns pd.DataFrame(flows) and main
\* merges it with quarterly_flows.csv and writes the file
FinishFlows ==
    /\ pc = "backsolve"
    /\ idx > Len(CodeList(codes))
    /\ IF flowFile.exists /\ ~flowFile.header
       THEN \* read_csv of a file without columns raises
            /\ pc' = "crashed"
            /\ exc' = "EmptyDataError"
            /\ UNCHANGED flowFile
       ELSE /\ flowFile' = WriteFlows(MergeFlows(flowFile, flows))
            /\ pc' = "done"
            /\ UNCHANGED exc
    /\ UNCHANGED <<codes, priceFile, runs, today, fresh, prices_df, q_end,
                   month_start, idx, flows, size_start, size_end, p_start,
                   p_end, stderr, docs_seen, aum_failed, feeds_ok, fx>>

\* the process has ended; the scheduler starts main() again
NextRun ==
    /\ pc \in {"done", "aborted", "crashed"}
    /\ runs < MaxRuns
    /\ runs' = runs + 1
    /\ pc' = "idle"
    /\ exc' = "none"
    /\ today' = NoDate
    /\ fresh' = <<>>
    /\ prices_df' = <<>>
    /\ q_end' = NoDate
    /\ month_start' = NoDate
    /\ idx' = 0
    /\ flows' = <<>>
    /\ size_start' = Zero
    /\ size_end' = Zero
    /\ p_start' = Zero
    /\ p_end' = Zero
    /\ stderr' = <<>>
    /\ docs_seen' = <<>>
    /\ aum_failed' = {}
    /\ feeds_ok' = <<TRUE, TRUE>>
    /\ UNCHANGED <<codes, priceFile, flowFile, fx>>

Next == Ingest \/ Schedule \/ BacksolveFund \/ FinishFlows \/ NextRun

Spec == Init /\ [][Next]_vars

---------------------------------------------------------------------------
(* The scheduling test of main() over every day of the calendar *)

InitCal ==
    /\ codes \in Universes
    /\ priceFile = NoFile
    /\ flowFile = NoFile
    /\ pc = "ingested"
    /\ runs = 1
    /\ today \in AllDays
    /\ FreshRun
    /\ fx = NoFx

NextCal == Schedule

SpecCal == InitCal /\ [][NextCal]_vars

---------------------------------------------------------------------------
(* The arithmetic of the loop body on its own *)

\* aum_end values around 55 (GBP m) in steps of 0.005, and 52 and 58
AumEndGrid ==
    { Rat(55000 + 5 * k, 1000) : k \in (0 - MaxK)..MaxK } \cup { Rat(52, 1), Rat(58, 1) }

FxInputs ==
    [stage : {"in"},
     ps : { Rat(-100, 1), Rat(0, 1), Rat(100, 1), Rat(300, 1) },
     pe : { Rat(0, 1), Rat(70, 1), Rat(110, 1) },
     as : { Rat(0, 1), Rat(50, 1) },
     ae : AumEndGrid, ae2 : AumEndGrid,
     f1 : {Zero}, f2 : {Zero}]

InitFlow ==
    /\ codes \in Universes
    /\ priceFile = NoFile
    /\ flowFile = NoFile
    /\ pc = "idle"
    /\ runs = 1
    /\ today = NoDate
    /\ FreshRun
    /\ fx \in FxInputs

\* the flow recorded for (as, ae, ps, pe) and for (as, ae2, ps, pe)
ApplyFlow ==
    /\ fx.stage = "in"
    /\ fx' = [fx EXCEPT !.stage = "out",
                        !.f1 = FlowGbpM(fx.as, fx.ae, fx.ps, fx.pe),
                        !.f2 = FlowGbpM(fx.as, fx.ae2, fx.ps, fx.pe)]
    /\ UNCHANGED runVars

NextFlow == ApplyFlow

SpecFlow == InitFlow /\ [][NextFlow]_vars

---------------------------------------------------------------------------
(* Vocabulary of the properties *)

\* x < y and x <= y on finite values
Less(x, y) == x.n * y.d < y.n * x.d

Leq(x, y) == x.n * y.d <= y.n * x.d

IsPositive(x) == x.k = "fin" /\ x.n > 0

KeysOf(rows, subset) == [i \in 1..Len(rows) |-> RowKey(rows[i], subset)]

\* the fund has no price row at month_start or none at q_end
PriceGap(c) ==
    \/ PriceMatches(prices_df, c, month_start) = <<>>
    \/ PriceMatches(prices_df, c, q_end) = <<>>

Estimating == q_end # NoDate

Universe == Range(CodeList(codes))

LoopOver == Estimating /\ idx > Len(CodeList(codes))

\* the last iteration of the loop appended a record: the locals size_start,
\* size_end, p_start, p_end are its inputs and the last row of flows its result
LastRecorded == docs_seen # <<>> /\ exc # "IndexError"

LastFlow == flows[Len(flows)].flow_gbp_m

FlowCodes == [i \in 1..Len(flows) |-> flows[i].code]

FailureLines == SelectSeq(stderr, LAMBDA l : l.kind = "error")

---------------------------------------------------------------------------
(* The properties *)

HasLedgerRow(c) ==
    \E i \in 1..Len(flowFile.rows) :
        flowFile.rows[i].quarter_end = q_end /\ flowFile.rows[i].code = c

\* C1: after any sequence of runs, prices.csv holds no two rows with the same
\* (date, code) and quarterly_flows.csv no two rows with the same
\* (quarter_end, code).
C1_NoDuplicateKeys ==
    /\ IsInjective(KeysOf(priceFile.rows, {"date", "code"}))
    /\ IsInjective(KeysOf(flowFile.rows, {"quarter_end", "code"}))

\* C2: merging the batch that has just been merged a second time leaves the
\* stored set of records unchanged, for prices.csv (batch: fresh) and for
\* quarterly_flows.csv (batch: flows).
C2_MergeIdempotent ==
    /\ pc = "ingested" =>
         Range(WritePrices(MergePrices(priceFile, fresh)).rows) = Range(priceFile.rows)
    /\ (pc = "done" /\ Estimating) =>
         Range(WriteFlows(MergeFlows(flowFile, flows)).rows) = Range(flowFile.rows)

\* C3: a fund without a price at month_start or q_end is the only fund
\* omitted: the run does not end with the IndexError of the lookup, and when
\* the run is done every fund whose AUM and prices were available has its
\* record in the ledger.
C3_PriceGapIsFundScoped ==
    Estimating =>
        /\ exc # "IndexError"
        /\ pc = "done" =>
             \A c \in Universe \ aum_failed : ~PriceGap(c) => HasLedgerRow(c)

C5_NoRecordFromFaultyInputs ==
    /\ \A i \in 1..Len(flowFile.rows) : IsFinite(flowFile.rows[i].flow_gbp_m)
    /\ LastRecorded =>
         /\ IsPositive(p_start) /\ IsPositive(p_end)
         /\ IsPositive(size_start) /\ IsPositive(size_end)

\* C6: a run in which a feed call fails is aborted with nothing estimated and
\* neither file modified; and whenever flow estimation is under way or over,
\* prices.csv exists and holds exactly the merged prices_df.
C6_BatchFatalIngest ==
    /\ [](feeds_ok # <<TRUE, TRUE>> =>
             (pc = "aborted" /\ ~Estimating /\ idx = 0 /\ flows = <<>>))
    /\ []((pc = "backsolve" \/ Estimating) =>
             (priceFile.exists /\ priceFile = WritePrices(prices_df)))
    /\ [][pc' = "aborted" => (priceFile' = priceFile /\ flowFile' = flowFile)]_vars

C6_Witness ==
    pc = "aborted" /\ feeds_ok = <<TRUE, FALSE>> /\ priceFile.exists

\* aum_end - aum_start * price_end / price_start, for price_start > 0
ExactFlow(as, ae, ps, pe) ==
    Rat(ae.n * as.d * ps.n * pe.d - as.n * pe.n * ae.d * ps.d,
        ae.d * as.d * ps.n * pe.d)

\* |f - x| <= 0.005
WithinHalfCent(f, x) ==
    LET d == ExtSub(f, x) IN d.k = "fin" /\ 200 * Abs(d.n) <= d.d

FxPositive == IsPositive(fx.ps) /\ IsPositive(fx.pe) /\ IsPositive(fx.as)

\* C7: for positive price_start, price_end and aum_start the recorded flow is
\* aum_end - aum_start * price_end / price_start rounded to two decimals: a
\* multiple of 0.01 within 0.005 of it, 0 when aum_end equals the no-flow
\* AUM, 3.00 for (100, 110, 50, 58) and -3.00 for aum_end 52.
C7_FlowFormula ==
    /\ FlowGbpM(Rat(50, 1), Rat(58, 1), Rat(100, 1), Rat(110, 1)) = Rat(3, 1)
    /\ FlowGbpM(Rat(50, 1), Rat(52, 1), Rat(100, 1), Rat(110, 1)) = Rat(-3, 1)
    /\ (fx.stage = "out" /\ FxPositive) =>
         /\ fx.f1.k = "fin"
         /\ 100 % fx.f1.d = 0
         /\ WithinHalfCent(fx.f1, ExactFlow(fx.as, fx.ae, fx.ps, fx.pe))
         /\ ExactFlow(fx.as, fx.ae, fx.ps, fx.pe) = Zero => fx.f1 = Zero

C7_Witness ==
    /\ fx.stage = "out"
    /\ fx.ps = Rat(100, 1) /\ fx.pe = Rat(110, 1)
    /\ fx.as = Rat(50, 1) /\ fx.ae = Rat(58, 1)
    /\ fx.f1 = Rat(3, 1)

\* C8 as stated: for fixed positive aum_start, price_start and price_end, any
\* increase of aum_end strictly increases the recorded (rounded) flow.
C8_StrictlyIncreasing ==
    (fx.stage = "out" /\ FxPositive /\ Less(fx.ae, fx.ae2)) => Less(fx.f1, fx.f2)

\* C8 as amended: an increase of aum_end never decreases the recorded flow,
\* and strictly increases it when the increase exceeds 0.01.
C8_Monotone ==
    (fx.stage = "out" /\ FxPositive /\ Less(fx.ae, fx.ae2)) =>
        /\ Leq(fx.f1, fx.f2)
        /\ Less(Rat(1, 100), ExtSub(fx.ae2, fx.ae)) => Less(fx.f1, fx.f2)

C8_Witness ==
    /\ fx.stage = "out" /\ FxPositive
    /\ Less(Rat(1, 100), ExtSub(fx.ae2, fx.ae))
    /\ Less(fx.f1, fx.f2)
    /\ fx.ae = Rat(55005, 1000)

\* C9: whenever main triggers flow estimation, q_end is the last calendar day
\* of the month before today, month_start is the month-end three months
\* before it, and both are quarter boundaries.
C9_QuarterWindow ==
    pc = "backsolve" =>
        /\ q_end = LastDayOfPrevMonth(today)
        /\ month_start = MonthEndThreeBack(q_end)
        /\ IsQuarterBoundary(q_end)
        /\ IsQuarterBoundary(month_start)

\* C10: when both fetches of an iteration are served the same document,
\* aum_start equals aum_end whatever the two as_of dates are, and the flow
\* recorded is round(aum * (1 - price_end / price_start), 2).
C10_AumIgnoresAsOf ==
    /\ docs_seen = <<TRUE>> => size_start = size_end
    /\ (LastRecorded /\ docs_seen = <<TRUE>>) =>
         LastFlow = Round2(ExtMul(size_end,
                                  ExtSub(Rat(1, 1), ExtDiv(p_end, p_start))))

C10_Witness ==
    /\ LastRecorded /\ docs_seen = <<TRUE>>
    /\ month_start # q_end
    /\ LastFlow.k = "fin" /\ LastFlow.n # 0

=============================================================================
